---- MODULE Spec2Model ----
(***************************************************************************)
(* WorkbenchStore (app/lib/stores/workbench.ts): artifact and action       *)
(* tracking, the editor documents and their unsaved markers, and the       *)
(* project backup (export / import).  Asynchronous methods are split at    *)
(* their awaits: one action per synchronous segment, one record per        *)
(* activation holding its locals and its position.                         *)
(***************************************************************************)
EXTENDS Naturals, Sequences, FiniteSets, TLC

VARIABLES
    artifacts,       \* WorkbenchStore.artifacts: messageId -> ArtifactState
    artifactIdList,  \* WorkbenchStore.artifactIdList
    currentView,     \* WorkbenchStore.currentView
    unsavedFiles,    \* WorkbenchStore.unsavedFiles
    selectedFile,    \* EditorStore.selectedFile
    documents,       \* EditorStore.documents: path -> value
    files,           \* FilesStore.files: path -> dirent
    calls,           \* activations of runAction, in invocation order
    saves,           \* activations of saveFile, in invocation order
    saveAll,         \* the activation of saveAllFiles
    db,              \* the chat database of ~/lib/persistence
    archive,         \* the backup written by exportProject
    fs,              \* the sandbox's files under /home/project
    backup,          \* the positions of exportProject and importProjectBackup
    last             \* the step taken last (history)

vars == <<artifacts, artifactIdList, currentView, unsavedFiles, selectedFile,
          documents, files, calls, saves, saveAll, db, archive, fs, backup, last>>

\* what the artifact and action methods do not touch
elsewhere == <<saves, saveAll, db, archive, fs, backup>>

----------------------------------------------------------------------------
(* Bounds and input sets *)

MaxCalls == 2
MaxSaves == 2

MessageIds == {"m1", "m2"}
Titles == {"t1", "t2"}
ArtifactIds == {"x1", "x2"}
ActionIds == {"0", "1"}
Contents == {"c1", "c2"}

Undefined == <<>>
EmptyMap == [x \in {} |-> x]

\* webcontainer.workdir
WorkDir == <<"home", "project">>

\* action.filePath values, as path segments
RelPaths == {<<"a">>, <<".", "b">>}

PathA == <<"home", "project", "a">>
PathB == <<"home", "project", "b">>

----------------------------------------------------------------------------
(* Helpers *)

RECURSIVE Normalize(_, _)
Normalize(segs, acc) ==
    IF segs = <<>> THEN acc
    ELSE LET s == Head(segs) IN
         Normalize(Tail(segs),
                   IF s = "." THEN acc
                   ELSE IF s = ".."
                        THEN (IF acc = <<>> THEN acc ELSE SubSeq(acc, 1, Len(acc) - 1))
                        ELSE Append(acc, s))

\* nodePath.join(wc.workdir, filePath)
Join(base, rel) == Normalize(base \o rel, <<>>)

\* new ActionRunner(...): nothing added, nothing run
NewRunner == [added |-> {}, runs |-> <<>>]

\* ActionRunner.addAction(data) as the store sees it: the runner has the action
RunnerAddAction(runner, actionId) == [runner EXCEPT !.added = @ \cup {actionId}]

\* ActionRunner.runAction(data, isStreaming) as the store sees it: the runner
\* has received the call; the promise it returns settles later
RunnerRunAction(runner, call, isStreaming) ==
    [runner EXCEPT !.runs = Append(@, [call |-> call, streaming |-> isStreaming])]

\* #getArtifact(id)
HasArtifact(id) == id \in DOMAIN artifacts

\* EditorStore.currentDocument: the document of the selected file, if any
CurrentDocument(docs, sel) == IF sel \in DOMAIN docs THEN sel ELSE Undefined

\* EditorStore.updateFile(filePath, newContent)
UpdateFile(docs, filePath, newContent) ==
    [p \in DOMAIN docs \cup {filePath} |-> IF p = filePath THEN newContent ELSE docs[p]]

\* FilesStore.getFile(filePath): the dirent when it is a file
HasFile(filePath) == filePath \in DOMAIN files /\ files[filePath].type = "file"

\* setCurrentDocumentContent taking a file the store does not hold as changed
SetCurrentDocumentContentMarking(docs, sel, unsaved, newContent) ==
    LET filePath == CurrentDocument(docs, sel) IN
    IF filePath = Undefined
    THEN [documents |-> docs, unsavedFiles |-> unsaved]
    ELSE LET unsavedChanges == ~HasFile(filePath) \/ files[filePath].content # newContent
             docs2 == UpdateFile(docs, filePath, newContent)
             cur == CurrentDocument(docs2, sel)
         IN  IF cur = Undefined \/ (unsavedChanges /\ cur \in unsaved)
             THEN [documents |-> docs2, unsavedFiles |-> unsaved]
             ELSE [documents |-> docs2,
                   unsavedFiles |-> IF unsavedChanges THEN unsaved \cup {cur}
                                                      ELSE unsaved \ {cur}]

\* setCurrentDocumentContent(newContent) on the editor state (docs, sel, unsaved)
SetCurrentDocumentContentOn(docs, sel, unsaved, newContent) ==
    LET filePath == CurrentDocument(docs, sel) IN
    IF filePath = Undefined
    THEN [documents |-> docs, unsavedFiles |-> unsaved]
    ELSE LET unsavedChanges == HasFile(filePath) /\ files[filePath].content # newContent
             docs2 == UpdateFile(docs, filePath, newContent)
             cur == CurrentDocument(docs2, sel)
         IN  IF cur = Undefined \/ (unsavedChanges /\ cur \in unsaved)
             THEN [documents |-> docs2, unsavedFiles |-> unsaved]
             ELSE [documents |-> docs2,
                   unsavedFiles |-> IF unsavedChanges THEN unsaved \cup {cur}
                                                      ELSE unsaved \ {cur}]

\* resetCurrentDocument() on the editor state
ResetCurrentDocumentOn(docs, sel, unsaved) ==
    LET filePath == CurrentDocument(docs, sel) IN
    IF filePath = Undefined \/ ~HasFile(filePath)
    THEN [documents |-> docs, unsavedFiles |-> unsaved]
    ELSE SetCurrentDocumentContentOn(docs, sel, unsaved, files[filePath].content)

----------------------------------------------------------------------------
(* Construction *)

\* artifacts carried over from import.meta.hot.data, or a fresh map
HotArtifacts ==
    {EmptyMap,
     [m \in {"m1"} |-> [id |-> "x1", title |-> "t1", closed |-> FALSE, runner |-> NewRunner]]}

\* unsavedFiles carried over from import.meta.hot.data, or a fresh set
HotUnsavedFiles == {{}, {PathA}}

\* saveAllFiles has not been called
NoSaveAll == [pc |-> "idle", snapshot |-> {}, remaining |-> {}, started |-> {}, current |-> 0]

\* the chat database: present or not, and the chats it holds
NoDb == [available |-> FALSE, chats |-> {}]

\* no export or import under way
Idle == [export |-> "idle", import |-> "idle", zip |-> <<>>, toRestore |-> {},
         toasts |-> {}, reload |-> FALSE]

\* the rest of the page, for the runs that leave it alone
QuietElsewhere ==
    /\ saves = <<>>
    /\ saveAll = NoSaveAll
    /\ db = NoDb
    /\ archive = <<>>
    /\ fs = EmptyMap
    /\ backup = Idle

\* the file store's content when the workbench is used
InitialFiles ==
    {EmptyMap,
     [p \in {PathA} |-> [type |-> "file", content |-> "c1", isBinary |-> FALSE]]}

Init ==
    /\ artifacts \in HotArtifacts
    /\ artifactIdList = <<>>
    /\ currentView \in {"code", "preview"}
    /\ unsavedFiles \in HotUnsavedFiles
    /\ selectedFile = Undefined
    /\ documents = EmptyMap
    /\ files \in InitialFiles
    /\ calls = <<>>
    /\ QuietElsewhere
    /\ last = [op |-> "init"]

----------------------------------------------------------------------------
(* Artifacts *)

\* addArtifact without the early return for an existing artifact
addArtifactOverwriting(messageId, title, id) ==
    /\ artifactIdList' =
          IF \E k \in 1..Len(artifactIdList) : artifactIdList[k] = messageId
          THEN artifactIdList
          ELSE Append(artifactIdList, messageId)
    /\ artifacts' =
          [m \in DOMAIN artifacts \cup {messageId} |->
              IF m = messageId
              THEN [id |-> id, title |-> title, closed |-> FALSE, runner |-> NewRunner]
              ELSE artifacts[m]]
    /\ last' = [op |-> "addArtifact", messageId |-> messageId, title |-> title, id |-> id]
    /\ UNCHANGED elsewhere
    /\ UNCHANGED <<currentView, unsavedFiles, selectedFile, documents, files, calls>>

\* addArtifact({ messageId, title, id })
addArtifact(messageId, title, id) ==
    /\ IF HasArtifact(messageId)
       THEN UNCHANGED <<artifacts, artifactIdList>>
       ELSE /\ artifactIdList' =
                  IF \E k \in 1..Len(artifactIdList) : artifactIdList[k] = messageId
                  THEN artifactIdList
                  ELSE Append(artifactIdList, messageId)
            /\ artifacts' =
                  [m \in DOMAIN artifacts \cup {messageId} |->
                      IF m = messageId
                      THEN [id |-> id, title |-> title, closed |-> FALSE, runner |-> NewRunner]
                      ELSE artifacts[m]]
    /\ last' = [op |-> "addArtifact", messageId |-> messageId, title |-> title, id |-> id]
    /\ UNCHANGED elsewhere
    /\ UNCHANGED <<currentView, unsavedFiles, selectedFile, documents, files, calls>>

\* { ...artifact, ...state }
Spread(artifact, state) ==
    [k \in DOMAIN artifact |-> IF k \in DOMAIN state THEN state[k] ELSE artifact[k]]

\* Partial<ArtifactUpdateState>
ArtifactUpdates ==
    {EmptyMap} \cup [title : Titles] \cup [closed : BOOLEAN] \cup [title : Titles, closed : BOOLEAN]

\* updateArtifact building the artifact anew, with a new runner
updateArtifactRebuilding(messageId, state) ==
    /\ IF ~HasArtifact(messageId)
       THEN UNCHANGED artifacts
       ELSE artifacts' = [artifacts EXCEPT ![messageId] =
                              Spread([@ EXCEPT !.runner = NewRunner], state)]
    /\ last' = [op |-> "updateArtifact", messageId |-> messageId, state |-> state]
    /\ UNCHANGED elsewhere
    /\ UNCHANGED <<artifactIdList, currentView, unsavedFiles, selectedFile, documents, files, calls>>

\* updateArtifact({ messageId }, state)
updateArtifact(messageId, state) ==
    /\ IF ~HasArtifact(messageId)
       THEN UNCHANGED artifacts
       ELSE artifacts' = [artifacts EXCEPT ![messageId] = Spread(@, state)]
    /\ last' = [op |-> "updateArtifact", messageId |-> messageId, state |-> state]
    /\ UNCHANGED elsewhere
    /\ UNCHANGED <<artifactIdList, currentView, unsavedFiles, selectedFile, documents, files, calls>>

\* addAction creating the artifact it does not find
addActionAdopting(messageId, actionId) ==
    /\ artifacts' =
          [m \in DOMAIN artifacts \cup {messageId} |->
              IF m = messageId
              THEN IF HasArtifact(m)
                   THEN [artifacts[m] EXCEPT !.runner = RunnerAddAction(@, actionId)]
                   ELSE [id |-> "x1", title |-> "t1", closed |-> FALSE,
                         runner |-> RunnerAddAction(NewRunner, actionId)]
              ELSE artifacts[m]]
    /\ last' = [op |-> "addAction", messageId |-> messageId, actionId |-> actionId,
                failed |-> ~HasArtifact(messageId)]
    /\ UNCHANGED elsewhere
    /\ UNCHANGED <<artifactIdList, currentView, unsavedFiles, selectedFile, documents, files, calls>>

\* addAction(data): the artifact's runner is given the action, or the call
\* fails with 'Artifact not found'
addAction(messageId, actionId) ==
    /\ IF ~HasArtifact(messageId)
       THEN UNCHANGED artifacts
       ELSE artifacts' = [artifacts EXCEPT ![messageId].runner = RunnerAddAction(@, actionId)]
    /\ last' = [op |-> "addAction", messageId |-> messageId, actionId |-> actionId,
                failed |-> ~HasArtifact(messageId)]
    /\ UNCHANGED elsewhere
    /\ UNCHANGED <<artifactIdList, currentView, unsavedFiles, selectedFile, documents, files, calls>>

\* get firstArtifact(): #getArtifact(artifactIdList[0]), undefined when there is none
FirstArtifactDefined == Len(artifactIdList) > 0 /\ HasArtifact(artifactIdList[1])

----------------------------------------------------------------------------
(* Editor *)

\* setSelectedFile(filePath)
setSelectedFile(filePath) ==
    /\ selectedFile' = filePath
    /\ last' = [op |-> "setSelectedFile"]
    /\ UNCHANGED elsewhere
    /\ UNCHANGED <<artifacts, artifactIdList, currentView, unsavedFiles, documents, files, calls>>

\* the dirents of a FileMap that are files
FilePathsOf(fileMap) == {p \in DOMAIN fileMap : fileMap[p].type = "file"}

\* EditorStore.setDocuments(files): one document per file, holding its content
DocumentsOf(fileMap) == [p \in FilePathsOf(fileMap) |-> fileMap[p].content]

\* setDocuments(files), called with the file store's map when it changes
SetDocumentsOfFiles ==
    /\ documents' = DocumentsOf(files)
    /\ IF FilePathsOf(files) # {} /\ CurrentDocument(DocumentsOf(files), selectedFile) = Undefined
       THEN \E p \in FilePathsOf(files) : selectedFile' = p
       ELSE UNCHANGED selectedFile

setDocuments ==
    /\ SetDocumentsOfFiles
    /\ last' = [op |-> "setDocuments"]
    /\ UNCHANGED elsewhere
    /\ UNCHANGED <<artifacts, artifactIdList, currentView, unsavedFiles, files, calls>>

----------------------------------------------------------------------------
(* runAction(data, isStreaming) *)

ActionData ==
    [messageId : MessageIds, type : {"file"}, filePath : RelPaths, content : Contents]
    \cup [messageId : MessageIds, type : {"shell"}, filePath : {Undefined}, content : {"cmd"}]

\* the actions the assistant streams in the runs checked
StreamedData ==
    {d \in ActionData :
        /\ d.messageId = "m2" => d.type = "shell" \/ (d.filePath = <<"a">> /\ d.content = "c2")
        /\ d.filePath = <<".", "b">> => d.content = "c2"}

SetPc(i, pc) == [calls EXCEPT ![i].pc = pc]

\* artifact.runner.runAction(data, isStreaming) for activation i
Delegate(i, isStreaming) ==
    [artifacts EXCEPT ![calls[i].data.messageId].runner = RunnerRunAction(@, i, isStreaming)]

\* lines 276-286 and 305-306, with the shell branch showing the code view
runActionInvokeShowingCode(data, isStreaming) ==
    /\ Len(calls) < MaxCalls
    /\ LET i == Len(calls) + 1
           call(pc) == [data |-> data, isStreaming |-> isStreaming, pc |-> pc,
                        doc |-> "unread"]
       IN  IF ~HasArtifact(data.messageId)
           THEN /\ calls' = Append(calls, call("failed"))
                /\ UNCHANGED <<artifacts, currentView>>
           ELSE IF data.type = "file"
           THEN /\ calls' = Append(calls, call("awaitWebcontainer"))
                /\ UNCHANGED <<artifacts, currentView>>
           ELSE /\ calls' = Append(calls, call("awaitRunnerShell"))
                /\ currentView' = "code"
                /\ artifacts' =
                      [artifacts EXCEPT ![data.messageId].runner = RunnerRunAction(@, i, FALSE)]
    /\ last' = [op |-> "runAction"]
    /\ UNCHANGED elsewhere
    /\ UNCHANGED <<artifactIdList, unsavedFiles, selectedFile, documents, files>>

\* lines 276-286 and 305-306: up to the first await
runActionInvoke(data, isStreaming) ==
    /\ Len(calls) < MaxCalls
    /\ LET i == Len(calls) + 1
           call(pc) == [data |-> data, isStreaming |-> isStreaming, pc |-> pc,
                        doc |-> "unread"]
       IN  IF ~HasArtifact(data.messageId)
           THEN /\ calls' = Append(calls, call("failed"))
                /\ UNCHANGED artifacts
           ELSE IF data.type = "file"
           THEN /\ calls' = Append(calls, call("awaitWebcontainer"))
                /\ UNCHANGED artifacts
           ELSE /\ calls' = Append(calls, call("awaitRunnerShell"))
                /\ artifacts' =
                      [artifacts EXCEPT ![data.messageId].runner = RunnerRunAction(@, i, FALSE)]
    /\ last' = [op |-> "runAction"]
    /\ UNCHANGED elsewhere
    /\ UNCHANGED <<artifactIdList, currentView, unsavedFiles, selectedFile, documents, files>>

\* lines 299-304 without the test of isStreaming
FileTailAlwaysFinal(i, sel, doc) ==
    LET c == calls[i]
        fullPath == Join(WorkDir, c.data.filePath)
        docs1 == UpdateFile(documents, fullPath, c.data.content)
        reset == ResetCurrentDocumentOn(docs1, sel, unsavedFiles)
    IN  /\ documents' = reset.documents
        /\ unsavedFiles' = reset.unsavedFiles
        /\ artifacts' = Delegate(i, FALSE)
        /\ calls' = [calls EXCEPT ![i].pc = "awaitRunnerFinal", ![i].doc = doc]

\* lines 299-304, run with `sel` selected: the document update, and for a
\* non-streaming action the reset and the delegation
FileTail(i, sel, doc) ==
    LET c == calls[i]
        fullPath == Join(WorkDir, c.data.filePath)
        docs1 == UpdateFile(documents, fullPath, c.data.content)
        reset == ResetCurrentDocumentOn(docs1, sel, unsavedFiles)
    IN  IF c.isStreaming
        THEN /\ documents' = docs1
             /\ calls' = [calls EXCEPT ![i].pc = "done", ![i].doc = doc]
             /\ UNCHANGED <<unsavedFiles, artifacts>>
        ELSE /\ documents' = reset.documents
             /\ unsavedFiles' = reset.unsavedFiles
             /\ artifacts' = Delegate(i, FALSE)
             /\ calls' = [calls EXCEPT ![i].pc = "awaitRunnerFinal", ![i].doc = doc]

\* the activations suspended at `await webcontainer` resume in the order they suspended
FirstAwaitingWebcontainer(i) ==
    /\ calls[i].pc = "awaitWebcontainer"
    /\ \A j \in 1..(i - 1) : calls[j].pc # "awaitWebcontainer"

\* lines 288-293: the file is selected and the code view shown
SelectKeepingView(fullPath) ==
    /\ selectedFile' = fullPath
    /\ UNCHANGED currentView

SelectAndShowCode(fullPath) ==
    /\ selectedFile' = fullPath
    /\ currentView' = "code"

\* lines 287-304 after `await webcontainer`, up to the next await
runActionSelect(i) ==
    /\ FirstAwaitingWebcontainer(i)
    /\ LET fullPath == Join(WorkDir, calls[i].data.filePath) IN
       /\ SelectAndShowCode(fullPath)
       /\ IF fullPath \in DOMAIN documents
          THEN FileTail(i, fullPath, "present")
          ELSE /\ artifacts' = Delegate(i, calls[i].isStreaming)
               /\ calls' = [calls EXCEPT ![i].pc = "awaitRunnerCreate", ![i].doc = "absent"]
               /\ UNCHANGED <<documents, unsavedFiles>>
    /\ last' = [op |-> "runAction"]
    /\ UNCHANGED elsewhere
    /\ UNCHANGED <<artifactIdList, files>>

\* lines 296-304 after the runner's promise of line 296 resolved
runActionUpdate(i) ==
    /\ calls[i].pc = "awaitRunnerCreate"
    /\ FileTail(i, selectedFile, "absent")
    /\ last' = [op |-> "runAction"]
    /\ UNCHANGED elsewhere
    /\ UNCHANGED <<artifactIdList, currentView, selectedFile, files>>

\* lines 303-308 and 306-308 after the runner's promise resolved: the call returns
runActionReturn(i) ==
    /\ calls[i].pc \in {"awaitRunnerFinal", "awaitRunnerShell"}
    /\ calls' = SetPc(i, "done")
    /\ last' = [op |-> "runAction"]
    /\ UNCHANGED elsewhere
    /\ UNCHANGED <<artifacts, artifactIdList, currentView, unsavedFiles, selectedFile,
                   documents, files>>

----------------------------------------------------------------------------

Next ==
    \/ addArtifact("m1", "t1", "x1")
    \/ setDocuments
    \/ \E d \in StreamedData, s \in BOOLEAN : runActionInvoke(d, s)
    \/ \E i \in 1..Len(calls) : runActionSelect(i)
    \/ \E i \in 1..Len(calls) : runActionUpdate(i)
    \/ \E i \in 1..Len(calls) : runActionReturn(i)

Spec == Init /\ [][Next]_vars

----------------------------------------------------------------------------
(* Properties of runAction *)

CallIds == 1..Len(calls)

FullPathOf(i) == Join(WorkDir, calls[i].data.filePath)

\* the positions at which the runner of call i's artifact received call i
Received(i) ==
    LET m == calls[i].data.messageId IN
    IF HasArtifact(m)
    THEN {k \in 1..Len(artifacts[m].runner.runs) : artifacts[m].runner.runs[k].call = i}
    ELSE {}

FirstReceived(i) == CHOOSE k \in Received(i) : \A l \in Received(i) : k <= l

Unresolved(i) == calls[i].pc \notin {"done", "failed"}

\* call i takes a step
Steps(i) == i \in CallIds /\ calls'[i].pc # calls[i].pc

\* a call is invoked
Invokes == Len(calls') = Len(calls) + 1

\* C1: when runAction is invoked for A and, before A's call has resolved, for B
\* of the same artifact, the artifact's runner receives A before it receives B:
\* whenever the runner has received both while A's call is still unresolved, A's
\* first receipt precedes B's.
C1_ReceivedInInvocationOrder ==
    \A i, j \in CallIds :
        (/\ i < j
         /\ calls[i].data.messageId = calls[j].data.messageId
         /\ Unresolved(i)
         /\ Received(i) # {}
         /\ Received(j) # {})
        => FirstReceived(i) < FirstReceived(j)

\* C2: a call runAction(data, isStreaming = false) on an existing artifact that
\* has returned has invoked the runner exactly once for its action.
C2_DelegatedExactlyOnce ==
    \A i \in CallIds :
        (calls[i].pc = "done" /\ ~calls[i].isStreaming) => Cardinality(Received(i)) = 1

\* C3: runAction with a shell action leaves selectedFile, currentView, the editor
\* documents and unsavedFiles unchanged; its only effect is the delegation to the
\* artifact's runner (one call, at the invocation), nothing else of the store changes.
C3_ShellStep ==
    /\ (Invokes /\ calls'[Len(calls')].data.type = "shell") =>
          /\ UNCHANGED <<selectedFile, currentView, documents, unsavedFiles, artifactIdList, files>>
          /\ LET m == calls'[Len(calls')].data.messageId IN
             IF m \in DOMAIN artifacts
             THEN artifacts' =
                    [artifacts EXCEPT ![m].runner.runs =
                        Append(@, [call |-> Len(calls'), streaming |-> FALSE])]
             ELSE artifacts' = artifacts
    /\ \A i \in CallIds : (Steps(i) /\ calls[i].data.type = "shell") =>
          UNCHANGED <<selectedFile, currentView, documents, unsavedFiles, artifactIdList,
                      files, artifacts>>

C3_ShellActionFrame == [][C3_ShellStep]_vars

C3_Witness ==
    \E i \in CallIds :
        /\ calls[i].data.type = "shell"
        /\ calls[i].pc = "done"
        /\ Cardinality(Received(i)) = 1
        /\ currentView = "preview"
        /\ selectedFile = PathA
        /\ PathA \in DOMAIN documents
        /\ unsavedFiles = {PathA}

\* C4: when runAction handles a file action (streaming or not), then in the
\* segment in which it first updates the editor document or delegates to the
\* runner, selectedFile is the workdir joined with action.filePath and currentView
\* is 'code', whatever they were before.
C4_SelectStep ==
    \A i \in CallIds :
        (calls[i].pc = "awaitWebcontainer" /\ Steps(i)) =>
            /\ selectedFile' = Join(WorkDir, calls[i].data.filePath)
            /\ currentView' = "code"
            /\ \/ Received(i)' # {}
               \/ documents'[FullPathOf(i)] = calls[i].data.content

C4_FileSelectedAndCodeShown == [][C4_SelectStep]_vars

\* two file actions: the second found the first's file selected, and selected its own
C4_Witness ==
    /\ Len(calls) = 2
    /\ calls[1].data.filePath = <<"a">>
    /\ calls[1].doc # "unread"
    /\ calls[2].data.filePath = <<".", "b">>
    /\ calls[2].doc # "unread"
    /\ selectedFile = PathB
    /\ currentView = "code"

\* C10: runAction with a file action and isStreaming = true delegates to the
\* runner only when no editor document exists yet for the full path (then exactly
\* once, with the streaming flag), always sets the editor document of the full
\* path to action.content, and never resets the current document or modifies
\* unsavedFiles.
C10_StreamingStep ==
    \A i \in CallIds :
        (Steps(i) /\ calls[i].data.type = "file" /\ calls[i].isStreaming) =>
            /\ unsavedFiles' = unsavedFiles
            /\ calls[i].pc = "awaitWebcontainer" =>
                  IF FullPathOf(i) \in DOMAIN documents
                  THEN /\ calls'[i].pc = "done"
                       /\ artifacts' = artifacts
                       /\ documents' = UpdateFile(documents, FullPathOf(i), calls[i].data.content)
                  ELSE /\ calls'[i].pc = "awaitRunnerCreate"
                       /\ artifacts' = Delegate(i, TRUE)
                       /\ documents' = documents
            /\ calls[i].pc = "awaitRunnerCreate" =>
                  /\ calls'[i].pc = "done"
                  /\ artifacts' = artifacts
                  /\ documents' = UpdateFile(documents, FullPathOf(i), calls[i].data.content)

C10_StreamingCounts ==
    \A i \in CallIds :
        (calls[i].data.type = "file" /\ calls[i].isStreaming) =>
            /\ Cardinality(Received(i)) = (IF calls[i].doc = "absent" THEN 1 ELSE 0)
            /\ calls[i].pc \in {"awaitWebcontainer", "awaitRunnerCreate", "done", "failed"}

C10_StreamingFileAction == []C10_StreamingCounts /\ [][C10_StreamingStep]_vars

\* a streaming file action has returned after delegating once; the file store
\* holds another content for the selected file, which is marked unsaved
C10_Witness ==
    \E i \in CallIds :
        /\ calls[i].data.type = "file"
        /\ calls[i].isStreaming
        /\ calls[i].pc = "done"
        /\ calls[i].doc = "absent"
        /\ selectedFile = PathA
        /\ FullPathOf(i) = PathA
        /\ documents[PathA] = "c2"
        /\ HasFile(PathA)
        /\ unsavedFiles = {PathA}

----------------------------------------------------------------------------
(* Artifact tracking on its own: every title and id, updates and added actions *)

NextArtifacts ==
    \/ \E m \in MessageIds, t \in Titles, x \in ArtifactIds : addArtifact(m, t, x)
    \/ \E m \in MessageIds, st \in ArtifactUpdates : updateArtifact(m, st)
    \/ \E m \in MessageIds, a \in ActionIds : addAction(m, a)

\* the store as constructed, fresh or with the artifacts of a hot reload
InitArtifacts ==
    /\ artifacts \in HotArtifacts
    /\ artifactIdList = <<>>
    /\ currentView = "code"
    /\ unsavedFiles = {}
    /\ selectedFile = Undefined
    /\ documents = EmptyMap
    /\ files = EmptyMap
    /\ calls = <<>>
    /\ QuietElsewhere
    /\ last = [op |-> "init"]

SpecArtifacts == InitArtifacts /\ [][NextArtifacts]_vars

\* C5: addArtifact is idempotent per messageId: with no entry for messageId it
\* creates artifacts[messageId] = {id, title, closed: false, new runner} and
\* appends messageId to artifactIdList; with an entry (whatever the title and id
\* given) it changes nothing: artifacts, artifactIdList and the existing runner
\* with its recorded actions are preserved.
C5_AddArtifactStep ==
    (last'.op = "addArtifact") =>
        LET m == last'.messageId IN
        IF m \in DOMAIN artifacts
        THEN artifacts' = artifacts /\ artifactIdList' = artifactIdList
        ELSE /\ DOMAIN artifacts' = DOMAIN artifacts \cup {m}
             /\ \A o \in DOMAIN artifacts : artifacts'[o] = artifacts[o]
             /\ artifacts'[m] = [id |-> last'.id, title |-> last'.title, closed |-> FALSE,
                                 runner |-> [added |-> {}, runs |-> <<>>]]
             /\ artifactIdList' = Append(artifactIdList, m)

C5_AddArtifactIdempotent == [][C5_AddArtifactStep]_vars

\* a later addArtifact with another title and id left the artifact, whose
\* runner has recorded an action, as it was
C5_Witness ==
    /\ last.op = "addArtifact"
    /\ last.messageId \in DOMAIN artifacts
    /\ artifacts[last.messageId].title # last.title
    /\ artifacts[last.messageId].id # last.id
    /\ artifacts[last.messageId].runner.added # {}
    /\ artifactIdList = <<"m2", "m1">>

\* C9: in every reachable state, also of a store constructed with artifacts
\* carried over from import.meta.hot.data, every messageId with an entry in
\* artifacts appears exactly once in artifactIdList, so firstArtifact is defined
\* whenever artifacts is non-empty.
C9_ArtifactsListed ==
    /\ \A m \in DOMAIN artifacts :
          Cardinality({k \in 1..Len(artifactIdList) : artifactIdList[k] = m}) = 1
    /\ DOMAIN artifacts # {} => FirstArtifactDefined

----------------------------------------------------------------------------
(* Editing and saving *)

\* what the editing and saving methods do not touch
beyondEditor == <<artifacts, artifactIdList, currentView, calls, saveAll, db, archive, fs, backup>>

\* setCurrentDocumentContent(newContent)
setCurrentDocumentContent(newContent) ==
    LET r == SetCurrentDocumentContentOn(documents, selectedFile, unsavedFiles, newContent) IN
    /\ documents' = r.documents
    /\ unsavedFiles' = r.unsavedFiles
    /\ last' = [op |-> "setCurrentDocumentContent", content |-> newContent]
    /\ UNCHANGED <<selectedFile, files, saves>>
    /\ UNCHANGED beyondEditor

\* saveFile(filePath), lines 174-182: up to the await of the file store
saveFileInvoke(filePath) ==
    /\ Len(saves) < MaxSaves
    /\ saves' = Append(saves,
          IF filePath \in DOMAIN documents
          THEN [filePath |-> filePath, value |-> documents[filePath], pc |-> "awaitStore"]
          ELSE [filePath |-> filePath, value |-> "", pc |-> "returned"])
    /\ last' = [op |-> "saveFile", filePath |-> filePath]
    /\ UNCHANGED <<unsavedFiles, selectedFile, documents, files>>
    /\ UNCHANGED beyondEditor

\* FilesStore.saveFile(filePath, content), once done: the store holds the content
StoreSaved(fileMap, filePath, content) ==
    [p \in DOMAIN fileMap \cup {filePath} |->
        IF p = filePath THEN [type |-> "file", content |-> content, isBinary |-> FALSE]
        ELSE fileMap[p]]

\* saveFile, lines 182-188: the file store has saved, the path is no longer unsaved
saveFileSaved(k) ==
    /\ saves[k].pc = "awaitStore"
    /\ files' = StoreSaved(files, saves[k].filePath, saves[k].value)
    /\ unsavedFiles' = unsavedFiles \ {saves[k].filePath}
    /\ saves' = [saves EXCEPT ![k].pc = "saved"]
    /\ last' = [op |-> "saveFile.saved", filePath |-> saves[k].filePath]
    /\ UNCHANGED <<selectedFile, documents>>
    /\ UNCHANGED beyondEditor

\* saveFile clearing the unsaved mark whether or not the file store saved
saveFileFailedClearing(k) ==
    /\ saves[k].pc = "awaitStore"
    /\ saves' = [saves EXCEPT ![k].pc = "failed"]
    /\ unsavedFiles' = unsavedFiles \ {saves[k].filePath}
    /\ last' = [op |-> "saveFile.failed", filePath |-> saves[k].filePath]
    /\ UNCHANGED <<selectedFile, documents, files>>
    /\ UNCHANGED beyondEditor

\* saveFile, line 182: the file store's save failed and the error propagates
saveFileFailed(k) ==
    /\ saves[k].pc = "awaitStore"
    /\ saves' = [saves EXCEPT ![k].pc = "failed"]
    /\ last' = [op |-> "saveFile.failed", filePath |-> saves[k].filePath]
    /\ UNCHANGED <<unsavedFiles, selectedFile, documents, files>>
    /\ UNCHANGED beyondEditor

\* a project of two files, loaded into the file store and shown in the editor
ProjectFiles ==
    [p \in {PathA, PathB} |-> [type |-> "file", content |-> "c1", isBinary |-> FALSE]]

InitEdit ==
    /\ artifacts = EmptyMap
    /\ artifactIdList = <<>>
    /\ currentView = "code"
    /\ unsavedFiles = {}
    /\ files = ProjectFiles
    /\ documents = DocumentsOf(ProjectFiles)
    /\ selectedFile \in {Undefined, PathA}
    /\ calls = <<>>
    /\ QuietElsewhere
    /\ last = [op |-> "init"]

NextEdit ==
    \/ \E c \in Contents : setCurrentDocumentContent(c)
    \/ \E p \in {PathA, PathB} : setSelectedFile(p)
    \/ \E p \in {PathA, PathB, <<"home", "project", "gone">>} : saveFileInvoke(p)
    \/ \E k \in 1..Len(saves) : saveFileSaved(k)
    \/ \E k \in 1..Len(saves) : saveFileFailed(k)

SpecEdit == InitEdit /\ [][NextEdit]_vars

\* C8: after any interleaving of setCurrentDocumentContent and saveFile calls
\* (an edit made while a save of the path awaits the file store included), once
\* no save is in flight a path is absent from unsavedFiles only if the editor
\* document's value equals the content held by the file store.
C8_SavedMeansStored ==
    (\A k \in 1..Len(saves) : saves[k].pc # "awaitStore") =>
        \A p \in DOMAIN documents :
            p \notin unsavedFiles => (HasFile(p) /\ documents[p] = files[p].content)

----------------------------------------------------------------------------
(* Backup: exportProject and importProjectBackup *)

\* what the backup methods do not touch
beyondBackup == <<artifacts, artifactIdList, currentView, unsavedFiles, calls, saves, saveAll>>

ChatIds == {"k1"}


\* an archive is [dirs, entries]: its folder entries and its file entries, by
\* full name
MetadataName == <<"metadata.json">>
ChatHistoryName == <<"chat_history.json">>
CodeName == <<"code">>

\* JSON.stringify(value, null, 2) and JSON.parse(text)
Stringify(value) == [json |-> value]
Parse(text) == text.json

\* zip.file(name, content)
ZipWithFile(zip, name, content) ==
    [zip EXCEPT !.entries =
        [n \in DOMAIN zip.entries \cup {name} |-> IF n = name THEN content ELSE zip.entries[n]]]

\* zip.file(name): the file entry of that name, if any
ZipHasFile(zip, name) == name \in DOMAIN zip.entries

\* filePath.replace(/^\/home\/project\//, '')
RelativePath(filePath) ==
    IF Len(filePath) > Len(WorkDir) /\ SubSeq(filePath, 1, Len(WorkDir)) = WorkDir
    THEN SubSeq(filePath, Len(WorkDir) + 1, Len(filePath))
    ELSE filePath

\* lines 504-505: the dirents that are exported
ExportedPaths(fileMap) ==
    {p \in DOMAIN fileMap : fileMap[p].type = "file" /\ ~fileMap[p].isBinary}

\* lines 497-527: the code folder, a folder per directory and an entry per file
CodeZip(fileMap) ==
    LET exported == ExportedPaths(fileMap)
        name(p) == CodeName \o RelativePath(p)
    IN  [dirs |-> {CodeName} \cup
                  {CodeName \o SubSeq(RelativePath(p), 1, k) :
                      <<p, k>> \in {<<q, j>> \in exported \X (1..3) : j < Len(RelativePath(q))}},
         entries |-> [n \in {name(p) : p \in exported} |->
                         fileMap[CHOOSE p \in exported : name(p) = n].content]]

\* title.toLowerCase().replace(/\s+/g, '-')
Slug(title) == [lowerCaseDashed |-> title]

\* line 487: the slug of the first artifact's title, or 'project'
ProjectName ==
    IF FirstArtifactDefined /\ artifacts[artifactIdList[1]].title # ""
    THEN Slug(artifacts[artifactIdList[1]].title)
    ELSE "project"

\* lines 540-546
ZipWithMetadata(zip) ==
    ZipWithFile(zip, MetadataName,
        Stringify([exportDate |-> "2026-11-03T00:00:00.000Z", version |-> "1.0",
                   projectName |-> ProjectName]))

\* exportProject, lines 481-530 and 540-548: up to the first await
exportProject ==
    /\ backup.export = "idle"
    /\ backup' =
          IF db.available
          THEN [backup EXCEPT !.export = "awaitGetAll", !.zip = CodeZip(files)]
          ELSE [backup EXCEPT !.export = "awaitGenerate",
                              !.zip = ZipWithMetadata(CodeZip(files))]
    /\ last' = [op |-> "exportProject"]
    /\ UNCHANGED <<selectedFile, documents, files, db, archive, fs>>
    /\ UNCHANGED beyondBackup

\* lines 532-533 and 540-548: getAll(db) returned the chats
exportChatsRead ==
    /\ backup.export = "awaitGetAll"
    /\ backup' =
          [backup EXCEPT !.export = "awaitGenerate",
                         !.zip = ZipWithMetadata(
                                    ZipWithFile(@, ChatHistoryName, Stringify(db.chats)))]
    /\ last' = [op |-> "exportProject"]
    /\ UNCHANGED <<selectedFile, documents, files, db, archive, fs>>
    /\ UNCHANGED beyondBackup

\* lines 534-537 and 540-548: getAll(db) failed
exportChatsFailed ==
    /\ backup.export = "awaitGetAll"
    /\ backup' =
          [backup EXCEPT !.export = "awaitGenerate",
                         !.zip = ZipWithMetadata(@),
                         !.toasts = @ \cup {"Failed to export chat history"}]
    /\ last' = [op |-> "exportProject"]
    /\ UNCHANGED <<selectedFile, documents, files, db, archive, fs>>
    /\ UNCHANGED beyondBackup

\* lines 548-550: the archive is generated and saved
exportSaved ==
    /\ backup.export = "awaitGenerate"
    /\ archive' = <<backup.zip>>
    /\ backup' = [backup EXCEPT !.export = "done",
                                !.toasts = @ \cup {"Project exported successfully"}]
    /\ last' = [op |-> "exportProject"]
    /\ UNCHANGED <<selectedFile, documents, files, db, fs>>
    /\ UNCHANGED beyondBackup

\* lines 551-554: generating the archive failed
exportFailed ==
    /\ backup.export = "awaitGenerate"
    /\ backup' = [backup EXCEPT !.export = "failed",
                                !.toasts = @ \cup {"Failed to export project"}]
    /\ last' = [op |-> "exportProject"]
    /\ UNCHANGED <<selectedFile, documents, files, db, archive, fs>>
    /\ UNCHANGED beyondBackup

\* lines 563-567: metadata.json and chat_history.json are there (zip.folder('code')
\* always returns a folder)
HasBackupStructure(zip) == ZipHasFile(zip, MetadataName) /\ ZipHasFile(zip, ChatHistoryName)

Truthy(field, record) == field \in DOMAIN record /\ record[field] # ""

\* lines 578-582
HasBackupMetadata(zip) ==
    LET metadataJson == Parse(zip.entries[MetadataName]) IN
    Truthy("version", metadataJson) /\ Truthy("exportDate", metadataJson)

\* importProjectBackup clearing /home/project before it validates the archive
importProjectBackupClearingFirst ==
    /\ archive # <<>>
    /\ backup.import = "idle"
    /\ fs' = EmptyMap
    /\ backup' =
          IF HasBackupStructure(archive[1])
          THEN [backup EXCEPT !.import = "awaitMetadata"]
          ELSE [backup EXCEPT !.import = "invalidFormat",
                              !.toasts = @ \cup {"Invalid backup file format"}]
    /\ last' = [op |-> "importProjectBackup"]
    /\ UNCHANGED <<selectedFile, documents, files, db, archive>>
    /\ UNCHANGED beyondBackup

\* importProjectBackup(file), lines 557-575: the archive is loaded and its structure checked
importProjectBackup ==
    /\ archive # <<>>
    /\ backup.import = "idle"
    /\ backup' =
          IF HasBackupStructure(archive[1])
          THEN [backup EXCEPT !.import = "awaitMetadata"]
          ELSE [backup EXCEPT !.import = "invalidFormat",
                              !.toasts = @ \cup {"Invalid backup file format"}]
    /\ last' = [op |-> "importProjectBackup"]
    /\ UNCHANGED <<selectedFile, documents, files, db, archive, fs>>
    /\ UNCHANGED beyondBackup

\* lines 578-589: the metadata is read and checked
importMetadataRead ==
    /\ backup.import = "awaitMetadata"
    /\ backup' =
          IF HasBackupMetadata(archive[1])
          THEN [backup EXCEPT !.import = "awaitChatHistory",
                              !.toasts = @ \cup {"Starting project restore..."}]
          ELSE [backup EXCEPT !.import = "invalidMetadata",
                              !.toasts = @ \cup {"Invalid backup metadata"}]
    /\ last' = [op |-> "importProjectBackup"]
    /\ UNCHANGED <<selectedFile, documents, files, db, archive, fs>>
    /\ UNCHANGED beyondBackup

\* lines 592-616: the existing chats are deleted and the archived ones stored
importChatsRestored ==
    /\ backup.import = "awaitChatHistory"
    /\ db' = IF db.available
             THEN [db EXCEPT !.chats = Parse(archive[1].entries[ChatHistoryName])]
             ELSE db
    /\ backup' = [backup EXCEPT !.import = "awaitWebcontainer"]
    /\ last' = [op |-> "importProjectBackup"]
    /\ UNCHANGED <<selectedFile, documents, files, archive, fs>>
    /\ UNCHANGED beyondBackup

\* lines 617-621: reading the database failed
importChatsFailed ==
    /\ backup.import = "awaitChatHistory"
    /\ db.available
    /\ backup' = [backup EXCEPT !.import = "failed",
                                !.toasts = @ \cup {"Failed to restore chat history"}]
    /\ last' = [op |-> "importProjectBackup"]
    /\ UNCHANGED <<selectedFile, documents, files, db, archive, fs>>
    /\ UNCHANGED beyondBackup

\* codeFolder.files: a folder object shares the archive's table of entries,
\* which is keyed by full names
FolderFiles(zip, folderName) == zip.entries

\* lines 625-641: /home/project is removed and made anew
importCleared ==
    /\ backup.import = "awaitWebcontainer"
    /\ fs' = EmptyMap
    /\ backup' = [backup EXCEPT !.import = "restoring",
                                !.toRestore = DOMAIN FolderFiles(archive[1], CodeName)]
    /\ last' = [op |-> "importProjectBackup"]
    /\ UNCHANGED <<selectedFile, documents, files, db, archive>>
    /\ UNCHANGED beyondBackup

\* path.replace(/^\/+/, '')
RECURSIVE CleanPath(_)
CleanPath(path) ==
    IF path # <<>> /\ Head(path) = "" THEN CleanPath(Tail(path)) ELSE path

\* lines 643-669: one file of the archive is written
importFileWritten(name) ==
    /\ backup.import = "restoring"
    /\ name \in backup.toRestore
    /\ LET fullPath == WorkDir \o CleanPath(name) IN
       fs' = [p \in DOMAIN fs \cup {fullPath} |->
                 IF p = fullPath THEN FolderFiles(archive[1], CodeName)[name] ELSE fs[p]]
    /\ backup' = [backup EXCEPT !.toRestore = @ \ {name}]
    /\ last' = [op |-> "importProjectBackup"]
    /\ UNCHANGED <<selectedFile, documents, files, db, archive>>
    /\ UNCHANGED beyondBackup

\* lines 672-682: the editor is refreshed and the reload scheduled
importRestored ==
    /\ backup.import = "restoring"
    /\ backup.toRestore = {}
    /\ SetDocumentsOfFiles
    /\ backup' = [backup EXCEPT !.import = "restored", !.reload = TRUE,
                                !.toasts = @ \cup {"Project restored successfully"}]
    /\ last' = [op |-> "importProjectBackup"]
    /\ UNCHANGED <<files, db, archive, fs>>
    /\ UNCHANGED beyondBackup

\* the projects backed up: a text file, a binary file, a file in a folder
NestedPath == <<"home", "project", "src", "c">>
FolderPath == <<"home", "project", "src">>

BackupProjects ==
    {[p \in ps |->
        IF p = FolderPath THEN [type |-> "folder"]
        ELSE [type |-> "file", content |-> (IF p = PathA THEN "c1" ELSE "c2"),
              isBinary |-> (p = PathB)]] :
     ps \in {qs \in SUBSET {PathA, PathB, FolderPath, NestedPath} :
                NestedPath \in qs => FolderPath \in qs}}

Databases == {NoDb} \cup {[available |-> TRUE, chats |-> cs] : cs \in SUBSET ChatIds}

InitBackup ==
    /\ artifacts = EmptyMap
    /\ artifactIdList = <<>>
    /\ currentView = "code"
    /\ unsavedFiles = {}
    /\ files \in BackupProjects
    /\ documents = DocumentsOf(files)
    /\ selectedFile = Undefined
    /\ calls = <<>>
    /\ saves = <<>>
    /\ saveAll = NoSaveAll
    /\ db \in Databases
    /\ archive = <<>>
    /\ fs = [p \in FilePathsOf(files) |-> files[p].content]
    /\ backup = Idle
    /\ last = [op |-> "init"]

NextBackup ==
    \/ exportProject
    \/ exportChatsRead
    \/ exportChatsFailed
    \/ exportSaved
    \/ exportFailed
    \/ importProjectBackup
    \/ importMetadataRead
    \/ importChatsRestored
    \/ importChatsFailed
    \/ importCleared
    \/ \E n \in backup.toRestore : importFileWritten(n)
    \/ importRestored

SpecBackup == InitBackup /\ [][NextBackup]_vars

\* C6: every archive produced by a completed exportProject passes the structure
\* and metadata validation of importProjectBackup, also when the chat database
\* is unavailable or reading the chat history failed during the export.
C6_ExportedArchiveValidates ==
    backup.export = "done" =>
        (HasBackupStructure(archive[1]) /\ HasBackupMetadata(archive[1]))

\* the non-binary files of the file store, as exported
ExportedProject == [p \in ExportedPaths(files) |-> files[p].content]

\* C7: after importProjectBackup succeeds on an archive produced by
\* exportProject, /home/project holds exactly the exported non-binary files, each
\* at its original path with its original content, and no other file.
C7_ExportImportRoundTrip ==
    backup.import = "restored" =>
        /\ DOMAIN fs = DOMAIN ExportedProject
        /\ \A p \in DOMAIN ExportedProject : fs[p] = ExportedProject[p]

----------------------------------------------------------------------------
(* Actions given to the workbench for a message with or without an artifact *)

NextActions ==
    \/ addArtifact("m1", "t1", "x1")
    \/ \E m \in MessageIds : addAction(m, "0")
    \/ \E d \in StreamedData, s \in BOOLEAN : runActionInvoke(d, s)
    \/ \E i \in 1..Len(calls) : runActionSelect(i)
    \/ \E i \in 1..Len(calls) : runActionUpdate(i)
    \/ \E i \in 1..Len(calls) : runActionReturn(i)

SpecActions == InitArtifacts /\ [][NextActions]_vars

ArtifactFrame == <<artifacts, artifactIdList, selectedFile, currentView, documents>>

C11_MissingArtifactStep ==
    /\ (last'.op = "addAction" /\ ~HasArtifact(last'.messageId)) =>
          /\ last'.failed
          /\ UNCHANGED ArtifactFrame
    /\ (Invokes /\ ~HasArtifact(calls'[Len(calls')].data.messageId)) =>
          /\ calls'[Len(calls')].pc = "failed"
          /\ UNCHANGED ArtifactFrame
    /\ \A i \in CallIds : calls[i].pc = "failed" => calls'[i] = calls[i]

C11_FailedNeverReceived ==
    \A i \in CallIds :
        calls[i].pc = "failed" =>
            \A m \in DOMAIN artifacts :
                \A k \in 1..Len(artifacts[m].runner.runs) : artifacts[m].runner.runs[k].call # i

\* C11: addAction and runAction called with a messageId that has no artifact
\* fail with 'Artifact not found': no runner is invoked, and artifacts,
\* artifactIdList, selectedFile, currentView and the editor documents are unchanged.
C11_ArtifactNotFound == []C11_FailedNeverReceived /\ [][C11_MissingArtifactStep]_vars

\* beside an artifact whose runner has run a file action, a runAction and then
\* an addAction for a message without artifact have failed
C11_Witness ==
    /\ Len(calls) = 2
    /\ calls[2].pc = "failed"
    /\ calls[1].pc = "done"
    /\ Cardinality(Received(1)) > 0
    /\ last.op = "addAction"
    /\ last.failed
    /\ DOMAIN artifacts = {"m1"}
    /\ selectedFile = PathA

----------------------------------------------------------------------------
(* Editing documents whose file the store may no longer hold *)

\* the file store with and without the first file of the project
StoredFiles ==
    {ProjectFiles,
     [p \in {PathB} |-> [type |-> "file", content |-> "c1", isBinary |-> FALSE]]}

\* the editor shows the project; the file store has changed since, or not
InitContent ==
    /\ artifacts = EmptyMap
    /\ artifactIdList = <<>>
    /\ currentView = "code"
    /\ unsavedFiles \in HotUnsavedFiles
    /\ files \in StoredFiles
    /\ documents = DocumentsOf(ProjectFiles)
    /\ selectedFile \in {Undefined, PathA}
    /\ calls = <<>>
    /\ QuietElsewhere
    /\ last = [op |-> "init"]

NextContent ==
    \/ \E c \in Contents : setCurrentDocumentContent(c)
    \/ \E p \in {Undefined, PathA, PathB} : setSelectedFile(p)
    \/ setDocuments

SpecContent == InitContent /\ [][NextContent]_vars

C12_ContentStep ==
    (last'.op = "setCurrentDocumentContent") =>
        LET p == CurrentDocument(documents, selectedFile)
            newContent == last'.content
        IN  IF p = Undefined
            THEN UNCHANGED <<documents, unsavedFiles, selectedFile, files>>
            ELSE /\ p \in unsavedFiles' <=> (HasFile(p) /\ files[p].content # newContent)
                 /\ \A q \in (unsavedFiles \cup unsavedFiles') \ {p} :
                       q \in unsavedFiles' <=> q \in unsavedFiles
                 /\ documents'[p] = newContent

\* C12: after setCurrentDocumentContent(newContent) with a current document at
\* path p, p is in unsavedFiles if and only if the file store holds a content for
\* p and that content differs from newContent; the membership of every other
\* path is unchanged; with no current document the call changes nothing.
C12_UnsavedIffDiffers == [][C12_ContentStep]_vars

\* the document of a file the store does not hold was edited and is not marked,
\* while the other file, edited before, still is
C12_Witness ==
    /\ last.op = "setCurrentDocumentContent"
    /\ selectedFile = PathA
    /\ ~HasFile(PathA)
    /\ PathA \in DOMAIN documents
    /\ documents[PathA] = "c2"
    /\ PathA \notin unsavedFiles
    /\ PathB \in unsavedFiles

----------------------------------------------------------------------------
(* Properties of saveFile *)

SaveIds == 1..Len(saves)

C13_SaveStep ==
    /\ Len(saves') = Len(saves) + 1 =>
          LET n == Len(saves') IN
          /\ UNCHANGED <<unsavedFiles, files>>
          /\ saves'[n].pc = (IF saves'[n].filePath \in DOMAIN documents
                             THEN "awaitStore" ELSE "returned")
    /\ \A k \in SaveIds :
          /\ saves[k].pc # "awaitStore" => saves'[k] = saves[k]
          /\ (saves[k].pc = "awaitStore" /\ saves'[k].pc = "saved") =>
                /\ unsavedFiles' = unsavedFiles \ {saves[k].filePath}
                /\ files'[saves[k].filePath].content = saves[k].value
          /\ (saves[k].pc = "awaitStore" /\ saves'[k].pc = "failed") =>
                UNCHANGED <<unsavedFiles, files>>
          /\ saves'[k].pc \in {"awaitStore", "saved", "failed", "returned"}

\* a save that returned at once never reached the file store or the unsaved marks
C13_SaveCases ==
    \A k \in SaveIds :
        saves[k].pc = "returned" => saves[k].filePath \notin DOMAIN documents

\* C13: saveFile(p): with an editor document for p and a successful file store
\* save, p is removed from unsavedFiles and every other path's membership is
\* unchanged; with no editor document the file store is not called and
\* unsavedFiles is unchanged; when the file store save fails, unsavedFiles is
\* unchanged and the error propagates to the caller.
C13_SaveFileCases == []C13_SaveCases /\ [][C13_SaveStep]_vars

\* the save of the first file failed and left it marked; the save of the second
\* stored its edited content and removed its mark only
C13_Witness ==
    /\ Len(saves) = 2
    /\ saves[1].filePath = PathA
    /\ saves[1].pc = "failed"
    /\ saves[2].filePath = PathB
    /\ saves[2].pc = "saved"
    /\ unsavedFiles = {PathA}
    /\ documents[PathB] = "c2"
    /\ files[PathB].content = "c2"
    /\ files[PathA].content = "c1"

----------------------------------------------------------------------------
(* saveAllFiles *)

\* what saveAllFiles and the saves it makes do not touch
beyondSaving == <<artifacts, artifactIdList, currentView, calls, db, archive, fs, backup>>

\* saveFile(filePath), lines 174-182, as called by saveAllFiles
SaveFileCall(filePath) ==
    IF filePath \in DOMAIN documents
    THEN [filePath |-> filePath, value |-> documents[filePath], pc |-> "awaitStore"]
    ELSE [filePath |-> filePath, value |-> "", pc |-> "returned"]

\* line 219: the next path of the set being iterated is saved and awaited
SaveNext(remaining, snapshot) ==
    \E p \in remaining :
        /\ saves' = Append(saves, SaveFileCall(p))
        /\ saveAll' = [pc |-> "awaitSave", snapshot |-> snapshot,
                       remaining |-> remaining \ {p},
                       started |-> saveAll.started \cup {Len(saves) + 1},
                       current |-> Len(saves) + 1]

\* saveAllFiles(), lines 217-219: the set held by unsavedFiles at the call is
\* iterated (saveFile and setCurrentDocumentContent replace the set, they never
\* change it), up to the first await
saveAllFiles ==
    /\ saveAll.pc = "idle"
    /\ Len(saves) + Cardinality(unsavedFiles) <= MaxSaves
    /\ IF unsavedFiles = {}
       THEN /\ saveAll' = [saveAll EXCEPT !.pc = "returned"]
            /\ UNCHANGED saves
       ELSE SaveNext(unsavedFiles, unsavedFiles)
    /\ last' = [op |-> "saveAllFiles"]
    /\ UNCHANGED <<unsavedFiles, selectedFile, documents, files>>
    /\ UNCHANGED beyondSaving

\* lines 218-221: the awaited saveFile has returned; the next path, or the end
saveAllFilesNext ==
    /\ saveAll.pc = "awaitSave"
    /\ saves[saveAll.current].pc \in {"saved", "returned"}
    /\ IF saveAll.remaining = {}
       THEN /\ saveAll' = [saveAll EXCEPT !.pc = "returned"]
            /\ UNCHANGED saves
       ELSE SaveNext(saveAll.remaining, saveAll.snapshot)
    /\ last' = [op |-> "saveAllFiles"]
    /\ UNCHANGED <<unsavedFiles, selectedFile, documents, files>>
    /\ UNCHANGED beyondSaving

\* line 219: the awaited saveFile failed; the error ends saveAllFiles
saveAllFilesFailed ==
    /\ saveAll.pc = "awaitSave"
    /\ saves[saveAll.current].pc = "failed"
    /\ saveAll' = [saveAll EXCEPT !.pc = "failed"]
    /\ last' = [op |-> "saveAllFiles"]
    /\ UNCHANGED <<saves, unsavedFiles, selectedFile, documents, files>>
    /\ UNCHANGED beyondSaving

\* the editor is used, then saveAllFiles is called; no edit is made from then on
NextSaveAll ==
    \/ \E c \in Contents : saveAll.pc = "idle" /\ setCurrentDocumentContent(c)
    \/ \E p \in {PathA, PathB} : setSelectedFile(p)
    \/ setDocuments
    \/ saveAllFiles
    \/ saveAllFilesNext
    \/ saveAllFilesFailed
    \/ \E k \in 1..Len(saves) : saveFileSaved(k)
    \/ \E k \in 1..Len(saves) : saveFileFailed(k)

SpecSaveAll == InitContent /\ [][NextSaveAll]_vars

\* C14: saveAllFiles saves the paths that were in unsavedFiles when it was
\* called, one at a time, the next save starting only after the previous one has
\* completed; if every save succeeds and no edit happens meanwhile, unsavedFiles
\* is empty when it returns.
C14_SaveAllFiles ==
    /\ \A k \in saveAll.started :
          /\ saves[k].filePath \in saveAll.snapshot
          /\ k # saveAll.current => saves[k].pc # "awaitStore"
          /\ \A j \in saveAll.started : saves[j].filePath = saves[k].filePath => j = k
    /\ (saveAll.pc = "returned" /\ \A k \in saveAll.started : saves[k].pc # "failed") =>
          unsavedFiles = {}

----------------------------------------------------------------------------
(* Properties of updateArtifact *)

C15_UpdateStep ==
    (last'.op = "updateArtifact") =>
        LET m == last'.messageId
            state == last'.state
        IN  /\ artifactIdList' = artifactIdList
            /\ IF m \notin DOMAIN artifacts
               THEN artifacts' = artifacts
               ELSE /\ DOMAIN artifacts' = DOMAIN artifacts
                    /\ \A o \in DOMAIN artifacts \ {m} : artifacts'[o] = artifacts[o]
                    /\ artifacts'[m].id = artifacts[m].id
                    /\ artifacts'[m].runner = artifacts[m].runner
                    /\ artifacts'[m].title =
                          (IF "title" \in DOMAIN state THEN state.title ELSE artifacts[m].title)
                    /\ artifacts'[m].closed =
                          (IF "closed" \in DOMAIN state THEN state.closed ELSE artifacts[m].closed)

\* C15: updateArtifact(messageId, state) changes nothing when no artifact exists
\* for messageId; otherwise it changes only the title and/or closed fields given
\* in state of that one artifact: its id and runner, every other artifact and
\* artifactIdList are unchanged.
C15_UpdateArtifactFrame == [][C15_UpdateStep]_vars

\* one of two artifacts was retitled and closed; its runner kept its action and
\* the other artifact is as it was added
C15_Witness ==
    /\ last.op = "updateArtifact"
    /\ last.messageId = "m1"
    /\ last.state = [title |-> "t2", closed |-> TRUE]
    /\ DOMAIN artifacts = {"m1", "m2"}
    /\ artifacts["m1"] = [id |-> "x1", title |-> "t2", closed |-> TRUE,
                          runner |-> [added |-> {"0"}, runs |-> <<>>]]
    /\ ~artifacts["m2"].closed
    /\ artifacts["m2"].title = "t1"

----------------------------------------------------------------------------
(* importProjectBackup of any archive the user picks *)

\* a well-formed backup of the two-file project, with no chat
WholeArchive ==
    ZipWithFile(
        ZipWithFile(CodeZip(ProjectFiles), ChatHistoryName, Stringify({})),
        MetadataName,
        Stringify([exportDate |-> "2026-11-03T00:00:00.000Z", version |-> "1.0",
                   projectName |-> "project"]))

\* the archive without one of its entries
ZipWithout(zip, name) ==
    [zip EXCEPT !.entries = [n \in DOMAIN zip.entries \ {name} |-> zip.entries[n]]]

\* the files picked for import: a backup, and backups damaged in one place
PickedArchives ==
    {WholeArchive,
     ZipWithout(WholeArchive, MetadataName),
     ZipWithout(WholeArchive, ChatHistoryName),
     ZipWithFile(WholeArchive, MetadataName,
                 Stringify([exportDate |-> "2026-11-03T00:00:00.000Z", projectName |-> "project"])),
     ZipWithFile(WholeArchive, MetadataName,
                 Stringify([version |-> "1.0", projectName |-> "project"])),
     ZipWithFile(WholeArchive, MetadataName,
                 Stringify([exportDate |-> "", version |-> "1.0", projectName |-> "project"]))}

InitImport ==
    /\ artifacts = EmptyMap
    /\ artifactIdList = <<>>
    /\ currentView = "code"
    /\ unsavedFiles = {}
    /\ files \in BackupProjects
    /\ documents = DocumentsOf(files)
    /\ selectedFile = Undefined
    /\ calls = <<>>
    /\ saves = <<>>
    /\ saveAll = NoSaveAll
    /\ db \in Databases
    /\ archive \in {<<zip>> : zip \in PickedArchives}
    /\ fs = [p \in FilePathsOf(files) |-> files[p].content]
    /\ backup = Idle
    /\ last = [op |-> "init"]

NextImport ==
    \/ importProjectBackup
    \/ importMetadataRead
    \/ importChatsRestored
    \/ importChatsFailed
    \/ importCleared
    \/ \E n \in backup.toRestore : importFileWritten(n)
    \/ importRestored

SpecImport == InitImport /\ [][NextImport]_vars

\* the archive lacks metadata.json or chat_history.json, or its metadata lacks
\* version or exportDate
InvalidArchive ==
    ~(HasBackupStructure(archive[1]) /\ HasBackupMetadata(archive[1]))

C16_InvalidStep ==
    InvalidArchive =>
        /\ UNCHANGED <<db, fs, files, documents>>
        /\ ~backup'.reload
        /\ backup.import \in {"invalidFormat", "invalidMetadata"} => backup' = backup

C16_InvalidStops ==
    InvalidArchive =>
        /\ backup.import \in {"idle", "awaitMetadata", "invalidFormat", "invalidMetadata"}
        /\ backup.toRestore = {}
        /\ ~backup.reload

\* C16: if the archive lacks metadata.json or chat_history.json, or its
\* metadata.json lacks version or exportDate, importProjectBackup returns without
\* deleting or writing any chat record, without removing or writing any sandbox
\* file, and without scheduling a page reload.
C16_InvalidArchiveUntouched == []C16_InvalidStops /\ [][C16_InvalidStep]_vars

\* an archive whose metadata has no version was refused; the chat and the
\* sandbox's files are still there
C16_Witness ==
    /\ backup.import = "invalidMetadata"
    /\ "Invalid backup metadata" \in backup.toasts
    /\ HasBackupStructure(archive[1])
    /\ ~Truthy("version", Parse(archive[1].entries[MetadataName]))
    /\ db = [available |-> TRUE, chats |-> {"k1"}]
    /\ PathA \in DOMAIN fs
    /\ ~backup.reload

====
